---------------------------- MODULE Spec2Model ----------------------------
(***************************************************************************)
(* A model of arithmetic_type_tools.hpp: the size-to-type tables, the      *)
(* largest_* reductions, next_up, fit_all and the constexpr min, max and   *)
(* clamp.                                                                  *)
(*                                                                         *)
(* A type is a record [cat, size, qual]: its category, its size in bytes   *)
(* and its qualification.  Every template of the header reads a type only  *)
(* through sizeof, std::is_signed_v, std::is_unsigned_v,                   *)
(* std::is_floating_point_v, std::decay_t and std::common_type_t, and      *)
(* these are functions of that record once sizeof(int) is known.           *)
(*                                                                         *)
(* The header is conditional on the build (__SIZEOF_INT128__,              *)
(* __SIZEOF_LONG_DOUBLE__), so the build is part of the state: `platform`. *)
(* Each behaviour picks a platform, and then instantiates one template or  *)
(* makes one call, on inputs drawn from bounded sets.                      *)
(*                                                                         *)
(* TLC's integers are 32 bits wide, so a byte of the model has BitsPerByte *)
(* bits instead of 8.  Which ranges contain which depends only on the      *)
(* order of the widths, which the scaling keeps.                           *)
(***************************************************************************)
EXTENDS Integers, Sequences, FiniteSets, TLC

VARIABLES
    platform,   \* the build: which predefined macros the header sees
    op,         \* the template instantiated or the function called, "init" before
    Ts,         \* the template's type arguments / the call's operand types
    vs,         \* the call's operand values (min, max, clamp), one per type
    S,          \* the size argument of a *_by_size lookup
    rtype,      \* the resulting type (::type, or the call's result type T / C)
    rval        \* the resulting value (::value, or the call's return value)

vars == <<platform, op, Ts, vs, S, rtype, rval>>

----------------------------------------------------------------------------
(* Bounds of the model *)

\* Bits in one byte of the model.
BitsPerByte == 1

\* Longest type list / operand list of a variadic template.
MaxArgs == 3

\* Largest size handed to a *_by_size lookup.
MaxWidth == 33

----------------------------------------------------------------------------
(* Types *)

Type(c, s) == [cat |-> c, size |-> s, qual |-> "none"]

\* `void`, the no-type marker of the tables.
void == [cat |-> "void", size |-> 0, qual |-> "none"]

\* The result of an instantiation or call that does not compile.
ill_formed == [cat |-> "ill_formed", size |-> 0, qual |-> "none"]

\* The builds modelled: x86-64 (LP64, __int128, 16-byte long double) and i386
\* (ILP32, no __int128, 12-byte long double), both with GCC or Clang.
\* __SIZEOF_INT256__ is defined by neither.
Platforms ==
    { [name |-> "x86_64", int128 |-> TRUE,  sizeof_int |-> 4,
       sizeof_size_t |-> 8, sizeof_long_double |-> 16],
      [name |-> "i386",   int128 |-> FALSE, sizeof_int |-> 4,
       sizeof_size_t |-> 4, sizeof_long_double |-> 12] }

IntSizes == {1, 2, 4, 8}

\* int8_t .. int64_t, uint8_t .. uint64_t
IntegerTypes == {Type(c, s) : c \in {"signed", "unsigned"}, s \in IntSizes}

\* float, double, long double
FloatTypes == {Type("float", s) : s \in {4, 8, platform.sizeof_long_double}}

ArithmeticTypes == IntegerTypes \cup FloatTypes

Quals == {"none", "const", "ref", "const_ref"}

\* T, const T, T&, const T&
Qualified(T) == {[T EXCEPT !.qual = q] : q \in Quals}

\* int&: a type that is in no category (std::is_arithmetic_v<int&> is false).
IntRef == [cat |-> "signed", size |-> 4, qual |-> "ref"]

size_t == Type("unsigned", platform.sizeof_size_t)

sizeof(T) == T.size

\* std::decay_t on an arithmetic type: strips the reference and the const.
decay_t(T) == [T EXCEPT !.qual = "none"]

\* The traits ignore const and are false for a reference.
is_floating_point_v(T) == T.qual \in {"none", "const"} /\ T.cat = "float"

\* std::is_signed_v<T> is T(-1) < T(0) for an arithmetic T: true for the signed
\* integers and for the floating-point types.
is_signed_v(T) == T.qual \in {"none", "const"} /\ T.cat \in {"signed", "float"}

is_unsigned_v(T) == T.qual \in {"none", "const"} /\ T.cat = "unsigned"

----------------------------------------------------------------------------
(* Size-to-type tables, lines 16-61 *)

\* Faulty variant of signed_by_size: an unsupported size picks the next
\* larger entry of the table.
signed_by_size_nearest(s) ==
    IF s \in {1, 2, 4, 8} \/ (s = 16 /\ platform.int128)
    THEN Type("signed", s)
    ELSE IF s = 3 THEN Type("signed", 4) ELSE void

signed_by_size(s) ==
    IF s \in {1, 2, 4, 8} \/ (s = 16 /\ platform.int128)
    THEN Type("signed", s)
    ELSE void

unsigned_by_size(s) ==
    IF s \in {1, 2, 4, 8} \/ (s = 16 /\ platform.int128)
    THEN Type("unsigned", s)
    ELSE void

\* __SIZEOF_FLOAT__ is 4 and __SIZEOF_DOUBLE__ is 8 on both platforms.
float_by_size(s) ==
    IF s \in {4, 8} \/ (s = 16 /\ platform.sizeof_long_double = 16)
    THEN Type("float", s)
    ELSE void

----------------------------------------------------------------------------
(* Values and conversions *)

\* A value: an integer, the value of a floating-point expression (not
\* interpreted: v is 0), or none because the expression does not compile.
IntVal(v) == [kind |-> "int", v |-> v]
FpVal == [kind |-> "fp", v |-> 0]
NoVal == [kind |-> "ill_formed", v |-> 0]

IsInteger(T) == T.cat \in {"signed", "unsigned"}

bits(T) == BitsPerByte * T.size

\* 2^(n-1) - 1 without the intermediate 2^(n-1)
MaxSigned(n) == IF n = 1 THEN 0 ELSE 2 * (2^(n - 2) - 1) + 1

\* std::numeric_limits<T>::max() of an integer type
numeric_limits_max(T) ==
    IF T.cat = "signed" THEN MaxSigned(bits(T)) ELSE 2 * MaxSigned(bits(T)) + 1

\* std::numeric_limits<T>::lowest() of an integer type
numeric_limits_lowest(T) ==
    IF T.cat = "signed" THEN -MaxSigned(bits(T)) - 1 ELSE 0

InRange(T, v) == numeric_limits_lowest(T) <= v /\ v <= numeric_limits_max(T)

\* static_cast<T>(v) to an integer type T: the value when T holds it, and
\* otherwise the value modulo 2^bits (two's complement).
static_cast(T, v) ==
    IF InRange(T, v) THEN v
    ELSE LET m == 2^bits(T)
             r == v % m
         IN IF T.cat = "signed" /\ r > numeric_limits_max(T) THEN r - m ELSE r

----------------------------------------------------------------------------
(* std::common_type_t, as lines 70-74, 87-91 and 105-112 use it *)

\* Integral promotion: a type narrower than int becomes int.
promote(T) ==
    IF IsInteger(T) /\ T.size < platform.sizeof_int
    THEN Type("signed", platform.sizeof_int)
    ELSE T

\* The type of `false ? a : b`: the usual arithmetic conversions, unless both
\* operands have the same type.
common_type2(A, B) ==
    IF A = B THEN A
    ELSE IF A.cat = "float" \/ B.cat = "float"
    THEN IF A.cat # "float" THEN B
         ELSE IF B.cat # "float" THEN A
         ELSE IF A.size >= B.size THEN A ELSE B
    ELSE LET pa == promote(A)
             pb == promote(B)
         IN IF pa.cat = pb.cat
            THEN IF pa.size >= pb.size THEN pa ELSE pb
            ELSE LET u == IF pa.cat = "unsigned" THEN pa ELSE pb
                     s == IF pa.cat = "unsigned" THEN pb ELSE pa
                 IN IF u.size >= s.size THEN u ELSE s

RECURSIVE common_type_fold(_, _)
common_type_fold(acc, rest) ==
    IF rest = <<>> THEN acc
    ELSE common_type_fold(common_type2(acc, Head(rest)), Tail(rest))

\* std::common_type_t<Ts...> of a non-empty pack (the empty pack has no member
\* `type`: a substitution failure).
common_type_t(types) == common_type_fold(Head(types), Tail(types))

\* std::max over an initializer list of sizes
std_max(sizes) == CHOOSE m \in sizes : \A x \in sizes : x <= m


----------------------------------------------------------------------------
(* min, lines 64-79 *)

\* The default template argument T of min (lines 69-74).  With no operand,
\* std::common_type_t<> has no member `type`, deduction fails and no function
\* matches the call.
min_T(types) ==
    IF types = <<>> THEN ill_formed
    ELSE LET C  == common_type_t(types)
             lu == std_max({IF is_unsigned_v(types[i]) THEN sizeof(types[i]) ELSE 0
                            : i \in DOMAIN types})
         IN IF (\E i \in DOMAIN types : is_signed_v(types[i]))
               /\ (\E i \in DOMAIN types : is_unsigned_v(types[i]))
            THEN signed_by_size(sizeof(C) * (IF sizeof(C) > lu THEN 1 ELSE 2))
            ELSE C

\* Faulty variant of min_step: the comparison's left side reads the operand
\* instead of temp, so every step keeps the operand.
min_step_last(T, temp, v) ==
    IF static_cast(T, v) < static_cast(T, v)
    THEN static_cast(T, temp)
    ELSE static_cast(T, v)

\* One step of the fold of line 77.
min_step(T, temp, v) ==
    IF static_cast(T, temp) < static_cast(T, v)
    THEN static_cast(T, temp)
    ELSE static_cast(T, v)

RECURSIVE min_fold(_, _, _)
min_fold(T, temp, vals) ==
    IF vals = <<>> THEN temp
    ELSE min_fold(T, min_step(T, temp, Head(vals)), Tail(vals))

\* Faulty variant of min: the fold starts from numeric_limits<T>::lowest(), as
\* max's does.
min_seeded_lowest(types, vals) ==
    LET T == min_T(types)
    IN IF T \in {void, ill_formed} THEN NoVal
       ELSE IF ~IsInteger(T) \/ (\E i \in DOMAIN types : ~IsInteger(types[i]))
       THEN FpVal
       ELSE IntVal(min_fold(T, numeric_limits_lowest(T), vals))

\* The call min(vals...) with operand types `types`: its return value.
min(types, vals) ==
    LET T == min_T(types)
    IN IF T \in {void, ill_formed} THEN NoVal
       ELSE IF ~IsInteger(T) \/ (\E i \in DOMAIN types : ~IsInteger(types[i]))
       THEN FpVal
       ELSE IntVal(min_fold(T, numeric_limits_max(T), vals))

----------------------------------------------------------------------------
(* max, lines 81-96 *)

\* The default template argument T of max (lines 86-91).
max_T(types) ==
    IF types = <<>> THEN ill_formed
    ELSE LET C  == common_type_t(types)
             lu == std_max({IF is_unsigned_v(types[i]) THEN sizeof(types[i]) ELSE 0
                            : i \in DOMAIN types})
         IN IF (\E i \in DOMAIN types : is_signed_v(types[i]))
               /\ (\E i \in DOMAIN types : is_unsigned_v(types[i]))
            THEN signed_by_size(sizeof(C) * (IF sizeof(C) > lu THEN 1 ELSE 2))
            ELSE C

\* One step of the fold of line 94.
max_step(T, temp, v) ==
    IF static_cast(T, v) > static_cast(T, temp)
    THEN static_cast(T, v)
    ELSE static_cast(T, temp)

RECURSIVE max_fold(_, _, _)
max_fold(T, temp, vals) ==
    IF vals = <<>> THEN temp
    ELSE max_fold(T, max_step(T, temp, Head(vals)), Tail(vals))

\* The call max(vals...) with operand types `types`: its return value.
max(types, vals) ==
    LET T == max_T(types)
    IN IF T \in {void, ill_formed} THEN NoVal
       ELSE IF ~IsInteger(T) \/ (\E i \in DOMAIN types : ~IsInteger(types[i]))
       THEN FpVal
       ELSE IntVal(max_fold(T, numeric_limits_lowest(T), vals))

----------------------------------------------------------------------------
(* clamp, lines 98-119 *)

\* Faulty variant of clamp_C: plain std::common_type_t of the operands.
clamp_C_common_type(T, U, V) == common_type_t(<<T, U, V>>)

\* The default template argument C of clamp (lines 103-112).
clamp_C(T, U, V) ==
    LET types == <<T, U, V>>
        C  == common_type_t(types)
        lu == std_max({IF is_unsigned_v(types[i]) THEN sizeof(types[i]) ELSE 0
                       : i \in DOMAIN types})
    IN IF (is_signed_v(T) \/ is_signed_v(U) \/ is_signed_v(V))
          /\ (is_unsigned_v(T) \/ is_unsigned_v(U) \/ is_unsigned_v(V))
       THEN signed_by_size(sizeof(C) * (IF sizeof(C) > lu THEN 1 ELSE 2))
       ELSE C

\* Faulty variant of clamp: the branch order of std::clamp, which tests
\* val < low first and high < val second.
clamp_std_order(types, low, val, high) ==
    LET C == clamp_C(types[1], types[2], types[3])
    IN IF C \in {void, ill_formed} THEN NoVal
       ELSE IF ~IsInteger(C) \/ (\E i \in DOMAIN types : ~IsInteger(types[i]))
       THEN FpVal
       ELSE IntVal(IF static_cast(C, val) < static_cast(C, low)
                   THEN static_cast(C, low)
                   ELSE (IF static_cast(C, high) < static_cast(C, val)
                         THEN static_cast(C, high)
                         ELSE static_cast(C, val)))

\* The call clamp(low, val, high) with operand types `types`: its return value.
clamp(types, low, val, high) ==
    LET C == clamp_C(types[1], types[2], types[3])
    IN IF C \in {void, ill_formed} THEN NoVal
       ELSE IF ~IsInteger(C) \/ (\E i \in DOMAIN types : ~IsInteger(types[i]))
       THEN FpVal
       ELSE IntVal(IF static_cast(C, low) < static_cast(C, val)
                   THEN (IF static_cast(C, val) < static_cast(C, high)
                         THEN static_cast(C, val)
                         ELSE static_cast(C, high))
                   ELSE static_cast(C, low))

----------------------------------------------------------------------------
(* largest_signed, largest_unsigned, largest_float, lines 121-149 *)

\* The operand types of the call to max: one std::size_t per list member.
size_ts(types) == [i \in DOMAIN types |-> size_t]

largest_signed(types) ==
    max(size_ts(types),
        [i \in DOMAIN types |-> IF is_signed_v(types[i]) THEN sizeof(types[i]) ELSE 0])

largest_unsigned(types) ==
    max(size_ts(types),
        [i \in DOMAIN types |-> IF is_unsigned_v(types[i]) THEN sizeof(types[i]) ELSE 0])

largest_float(types) ==
    max(size_ts(types),
        [i \in DOMAIN types |->
            IF is_floating_point_v(types[i]) THEN sizeof(types[i]) ELSE 0])

----------------------------------------------------------------------------
(* next_up, lines 151-167 *)

\* Faulty variant of next_up: reads T itself, not std::decay_t<T>.
next_up_no_decay(T) ==
    IF is_floating_point_v(T) THEN float_by_size(2 * sizeof(T))
    ELSE IF is_signed_v(T) THEN signed_by_size(2 * sizeof(T))
    ELSE unsigned_by_size(2 * sizeof(T))

next_up(T) ==
    LET BT == decay_t(T)
    IN IF is_floating_point_v(BT) THEN float_by_size(2 * sizeof(BT))
       ELSE IF is_signed_v(BT) THEN signed_by_size(2 * sizeof(BT))
       ELSE unsigned_by_size(2 * sizeof(BT))

----------------------------------------------------------------------------
(* fit_all, lines 170-202 *)

\* Faulty variant of fit_all: a signed member as large as the largest unsigned
\* one already decides the type (ls >= lu instead of ls > lu).
fit_all_same_width(types) ==
    LET ls == largest_signed(types)
        lu == largest_unsigned(types)
        lf == largest_float(types)
    IN IF ls.kind # "int" \/ lu.kind # "int" \/ lf.kind # "int" THEN ill_formed
       ELSE IF lf.v > 0 THEN float_by_size(lf.v)
       ELSE IF ls.v > 0
            THEN (IF ls.v >= lu.v THEN signed_by_size(ls.v)
                  ELSE signed_by_size(2 * lu.v))
            ELSE IF lu.v > 0 THEN unsigned_by_size(lu.v)
            ELSE void

\* fit_all<T...>::type.  The members ls, lu and lf are constant expressions the
\* alias needs: when one of them does not compile, neither does the class.
fit_all(types) ==
    LET ls == largest_signed(types)
        lu == largest_unsigned(types)
        lf == largest_float(types)
    IN IF ls.kind # "int" \/ lu.kind # "int" \/ lf.kind # "int" THEN ill_formed
       ELSE IF lf.v > 0 THEN float_by_size(lf.v)
       ELSE IF ls.v > 0
            THEN (IF ls.v > lu.v THEN signed_by_size(ls.v)
                  ELSE signed_by_size(2 * lu.v))
            ELSE IF lu.v > 0 THEN unsigned_by_size(lu.v)
            ELSE void

----------------------------------------------------------------------------
(* Inputs *)

SeqsUpTo(set, n) == UNION {[1..k -> set] : k \in 0..n}

\* The members of a type list: the arithmetic types and one type that is in
\* no category.
ListTypes == ArithmeticTypes \cup {IntRef}

\* The operand values of the variadic calls: the ends of the type's range and 0.
Values(T) ==
    IF IsInteger(T)
    THEN {numeric_limits_lowest(T), 0, numeric_limits_max(T)}
    ELSE {0}

\* The operand values of clamp: also the values next to 0 and the -5 and 10 of
\* the documented use.
ClampValues(T) ==
    IF IsInteger(T)
    THEN {v \in {numeric_limits_lowest(T), -5, -1, 0, 1, 10, numeric_limits_max(T)}
            : InRange(T, v)}
    ELSE {0}

\* An operand <<type, value>> of min or max.  Template argument deduction
\* gives every operand an unqualified arithmetic type.
Operands == UNION {{<<T, v>> : v \in Values(T)} : T \in ArithmeticTypes}

\* An operand <<type, value>> of clamp.
ClampOperands == UNION {{<<T, v>> : v \in ClampValues(T)} : T \in ArithmeticTypes}

TypesOf(args) == [i \in DOMAIN args |-> args[i][1]]
ValuesOf(args) == [i \in DOMAIN args |-> args[i][2]]

----------------------------------------------------------------------------
(* The state machine *)

Init ==
    /\ platform \in Platforms
    /\ op = "init"
    /\ Ts = <<>>
    /\ vs = <<>>
    /\ S = 0
    /\ rtype = void
    /\ rval = NoVal

\* signed_by_size_t<s>
SignedBySize ==
    /\ op = "init"
    /\ \E s \in 0..MaxWidth :
        /\ S' = s
        /\ rtype' = signed_by_size(s)
    /\ op' = "signed_by_size"
    /\ UNCHANGED <<platform, Ts, vs, rval>>

\* unsigned_by_size_t<s>
UnsignedBySize ==
    /\ op = "init"
    /\ \E s \in 0..MaxWidth :
        /\ S' = s
        /\ rtype' = unsigned_by_size(s)
    /\ op' = "unsigned_by_size"
    /\ UNCHANGED <<platform, Ts, vs, rval>>

\* float_by_size_t<s>
FloatBySize ==
    /\ op = "init"
    /\ \E s \in 0..MaxWidth :
        /\ S' = s
        /\ rtype' = float_by_size(s)
    /\ op' = "float_by_size"
    /\ UNCHANGED <<platform, Ts, vs, rval>>

\* largest_signed_v<T...>
LargestSigned ==
    /\ op = "init"
    /\ \E types \in SeqsUpTo(ListTypes, MaxArgs) :
        /\ Ts' = types
        /\ rval' = largest_signed(types)
    /\ op' = "largest_signed"
    /\ UNCHANGED <<platform, vs, S, rtype>>

\* largest_unsigned_v<T...>
LargestUnsigned ==
    /\ op = "init"
    /\ \E types \in SeqsUpTo(ListTypes, MaxArgs) :
        /\ Ts' = types
        /\ rval' = largest_unsigned(types)
    /\ op' = "largest_unsigned"
    /\ UNCHANGED <<platform, vs, S, rtype>>

\* largest_float_v<T...>
LargestFloat ==
    /\ op = "init"
    /\ \E types \in SeqsUpTo(ListTypes, MaxArgs) :
        /\ Ts' = types
        /\ rval' = largest_float(types)
    /\ op' = "largest_float"
    /\ UNCHANGED <<platform, vs, S, rtype>>

\* next_up_t<T>
NextUp ==
    /\ op = "init"
    /\ \E A \in ArithmeticTypes : \E T \in Qualified(A) :
        /\ Ts' = <<T>>
        /\ rtype' = next_up(T)
    /\ op' = "next_up"
    /\ UNCHANGED <<platform, vs, S, rval>>

\* fit_all_t<T...>
FitAll ==
    /\ op = "init"
    /\ \E types \in SeqsUpTo(ListTypes, MaxArgs) :
        /\ Ts' = types
        /\ rtype' = fit_all(types)
    /\ op' = "fit_all"
    /\ UNCHANGED <<platform, vs, S, rval>>

\* min(vals...)
Min ==
    /\ op = "init"
    /\ \E args \in SeqsUpTo(Operands, MaxArgs) :
        /\ Ts' = TypesOf(args)
        /\ vs' = ValuesOf(args)
        /\ rtype' = min_T(TypesOf(args))
        /\ rval' = min(TypesOf(args), ValuesOf(args))
    /\ op' = "min"
    /\ UNCHANGED <<platform, S>>

\* max(vals...)
Max ==
    /\ op = "init"
    /\ \E args \in SeqsUpTo(Operands, MaxArgs) :
        /\ Ts' = TypesOf(args)
        /\ vs' = ValuesOf(args)
        /\ rtype' = max_T(TypesOf(args))
        /\ rval' = max(TypesOf(args), ValuesOf(args))
    /\ op' = "max"
    /\ UNCHANGED <<platform, S>>

\* clamp(low, val, high)
Clamp ==
    /\ op = "init"
    /\ \E low \in ClampOperands, val \in ClampOperands, high \in ClampOperands :
        /\ Ts' = <<low[1], val[1], high[1]>>
        /\ vs' = <<low[2], val[2], high[2]>>
        /\ rtype' = clamp_C(low[1], val[1], high[1])
        /\ rval' = clamp(<<low[1], val[1], high[1]>>, low[2], val[2], high[2])
    /\ op' = "clamp"
    /\ UNCHANGED <<platform, S>>

Next ==
    \/ SignedBySize
    \/ UnsignedBySize
    \/ FloatBySize
    \/ LargestSigned
    \/ LargestUnsigned
    \/ LargestFloat
    \/ NextUp
    \/ FitAll
    \/ Min
    \/ Max
    \/ Clamp

Spec == Init /\ [][Next]_vars

----------------------------------------------------------------------------
(* What the claims are stated with *)

int8  == Type("signed", 1)
int16 == Type("signed", 2)
int32 == Type("signed", 4)
int64 == Type("signed", 8)
uint8  == Type("unsigned", 1)
uint16 == Type("unsigned", 2)
uint32 == Type("unsigned", 4)
uint64 == Type("unsigned", 8)
float32 == Type("float", 4)

\* The list's members of exactly category c.
MembersOf(types, c) ==
    {i \in DOMAIN types : types[i].cat = c /\ types[i].qual \in {"none", "const"}}

\* The largest byte size among the list's members of category c, 0 without one.
LargestOf(types, c) ==
    IF MembersOf(types, c) = {} THEN 0
    ELSE std_max({types[i].size : i \in MembersOf(types, c)})

Perms(n) == {p \in [1..n -> 1..n] : \A i, j \in 1..n : p[i] = p[j] => i = j}

Permuted(seq, p) == [i \in DOMAIN seq |-> seq[p[i]]]

AllIntegers == \A i \in DOMAIN Ts : Ts[i] \in IntegerTypes

WellFormed == rtype \notin {void, ill_formed}

\* The unifying type the fit_all rule gives for sizes lf, ls, lu.
FitAllRule(lf, ls, lu) ==
    IF lf > 0 THEN float_by_size(lf)
    ELSE IF ls > 0
         THEN (IF ls > lu THEN signed_by_size(ls) ELSE signed_by_size(2 * lu))
         ELSE IF lu > 0 THEN unsigned_by_size(lu)
         ELSE void

FitAllExpected(types) ==
    FitAllRule(LargestOf(types, "float"), LargestOf(types, "signed"),
               LargestOf(types, "unsigned"))

----------------------------------------------------------------------------
(* C1 *)

\* C1: for every list of arithmetic types, fit_all yields the float type of
\* size lf if lf > 0, else the signed type of size ls (ls > lu) or 2*lu
\* (ls <= lu) if ls > 0, else the unsigned type of size lu if lu > 0, else the
\* no-type marker; fit_all{int32,uint32} is int64, fit_all{int8,uint8} is
\* int16, fit_all{float32,int64} is float32.
C1_FitAllRule ==
    (op = "fit_all" /\ \A i \in DOMAIN Ts : Ts[i] \in ArithmeticTypes) =>
        /\ rtype = FitAllExpected(Ts)
        /\ Ts = <<int32, uint32>> => rtype = int64
        /\ Ts = <<int8, uint8>> => rtype = int16
        /\ Ts = <<float32, int64>> => rtype = float32

\* The rule of C1 on the lists that have a member: it fails on the empty list
\* only.
FitAllRuleNonEmpty ==
    (op = "fit_all" /\ Ts # <<>> /\ \A i \in DOMAIN Ts : Ts[i] \in ArithmeticTypes) =>
        /\ rtype = FitAllExpected(Ts)
        /\ Ts = <<int32, uint32>> => rtype = int64
        /\ Ts = <<int8, uint8>> => rtype = int16
        /\ Ts = <<float32, int64>> => rtype = float32

----------------------------------------------------------------------------
(* C2 *)

\* C2: for a non-empty list of signed and unsigned integer types of widths 1,
\* 2, 4, 8, when fit_all yields a type, that type's range contains the range
\* of every member, and converting a member's value to it keeps the value.
C2_FitAllHoldsEveryValue ==
    (op = "fit_all" /\ Ts # <<>> /\ AllIntegers /\ WellFormed) =>
        /\ IsInteger(rtype)
        /\ \A i \in DOMAIN Ts :
            /\ numeric_limits_lowest(rtype) <= numeric_limits_lowest(Ts[i])
            /\ numeric_limits_max(Ts[i]) <= numeric_limits_max(rtype)
            /\ \A v \in {numeric_limits_lowest(Ts[i]), -1, 0, 1,
                         numeric_limits_max(Ts[i])} :
                InRange(Ts[i], v) => static_cast(rtype, v) = v

C2_Witness ==
    /\ op = "fit_all"
    /\ Ts = <<int32, uint32>>
    /\ rtype = int64

----------------------------------------------------------------------------
(* C3 *)

Mixed == \E i, j \in DOMAIN Ts : Ts[i] # Ts[j]

\* C3: for operand types that mix categories or widths, the result type of
\* min, max and clamp is fit_all_t of the operand types.
C3_ResultTypeIsFitAll ==
    (op \in {"min", "max", "clamp"} /\ Mixed) => rtype = fit_all(Ts)

----------------------------------------------------------------------------
(* C4 *)

MathClamp(low, val, high) ==
    IF val < low THEN low ELSE IF val > high THEN high ELSE val

\* C4: clamp with unsigned low <= high and a negative signed val of the same
\* or a smaller width returns low; for any signed and unsigned integer
\* operands with low <= high the result is val clamped to [low, high] on the
\* operands' true values (clamp(0u, -5, 10u) = 0).
C4_ClampIsMathematical ==
    (op = "clamp" /\ AllIntegers /\ WellFormed /\ vs[1] <= vs[3]) =>
        /\ rval = IntVal(MathClamp(vs[1], vs[2], vs[3]))
        /\ (/\ Ts[1].cat = "unsigned" /\ Ts[3].cat = "unsigned"
            /\ Ts[2].cat = "signed"
            /\ Ts[2].size <= Ts[1].size /\ Ts[2].size <= Ts[3].size
            /\ vs[2] < 0) => rval = IntVal(vs[1])
        /\ (Ts = <<uint32, int32, uint32>> /\ vs = <<0, -5, 10>>) => rval = IntVal(0)

C4_Witness ==
    /\ op = "clamp"
    /\ Ts = <<uint32, int32, uint32>>
    /\ vs = <<0, -5, 10>>
    /\ rtype = int64
    /\ rval = IntVal(0)

----------------------------------------------------------------------------
(* C5 *)

\* C5: for a non-empty list of signed and unsigned integer operands whose
\* result type exists, min returns the least and max the greatest of the
\* operands' true values, as a value of the result type; the result is always
\* one of the operands, never a fold seed that no operand equals.
C5_MinMaxExact ==
    (op \in {"min", "max"} /\ Ts # <<>> /\ AllIntegers /\ WellFormed) =>
        /\ rval.kind = "int"
        /\ InRange(rtype, rval.v)
        /\ \E i \in DOMAIN vs : rval.v = vs[i]
        /\ op = "min" => \A i \in DOMAIN vs : rval.v <= vs[i]
        /\ op = "max" => \A i \in DOMAIN vs : rval.v >= vs[i]

C5_Witness ==
    /\ op = "min"
    /\ Ts = <<uint64, int32>>
    /\ vs = <<numeric_limits_max(uint64), numeric_limits_lowest(int32)>>
    /\ WellFormed
    /\ rval = IntVal(numeric_limits_lowest(int32))

----------------------------------------------------------------------------
(* C6 *)

\* C6: largest_signed, largest_unsigned and largest_float return the largest
\* byte size among the list's members of exactly that category (signed
\* integer, unsigned integer, floating point), 0 for an empty list or a list
\* without such a member, whatever the order of the list.
C6_LargestByCategory ==
    /\ op = "largest_signed" => rval = IntVal(LargestOf(Ts, "signed"))
    /\ op = "largest_unsigned" => rval = IntVal(LargestOf(Ts, "unsigned"))
    /\ op = "largest_float" => rval = IntVal(LargestOf(Ts, "float"))
    /\ op = "largest_signed" =>
        \A p \in Perms(Len(Ts)) : largest_signed(Permuted(Ts, p)) = rval
    /\ op = "largest_unsigned" =>
        \A p \in Perms(Len(Ts)) : largest_unsigned(Permuted(Ts, p)) = rval
    /\ op = "largest_float" =>
        \A p \in Perms(Len(Ts)) : largest_float(Permuted(Ts, p)) = rval

----------------------------------------------------------------------------
(* C7 *)

\* C7: next_up<T> is, for the decayed T, the table's type of T's category and
\* twice T's size, or the no-type marker when the table has none; next_up
\* applied twice gives four times T's size when both steps are supported
\* (next_up<int8> is int16, next_up<int16> is int32).
C7_NextUpDoubles ==
    op = "next_up" =>
        LET T  == Ts[1]
            up == IF T.cat = "float" THEN float_by_size(2 * T.size)
                  ELSE IF T.cat = "signed" THEN signed_by_size(2 * T.size)
                  ELSE unsigned_by_size(2 * T.size)
            twice == next_up(rtype)
        IN /\ rtype = up
           /\ rtype # void => rtype = Type(T.cat, 2 * T.size)
           /\ (rtype # void /\ twice # void) => twice = Type(T.cat, 4 * T.size)
           /\ decay_t(T) = int8 => rtype = int16
           /\ decay_t(T) = int16 => rtype = int32

C7_Witness ==
    /\ op = "next_up"
    /\ Ts = <<[cat |-> "signed", size |-> 1, qual |-> "const_ref"]>>
    /\ rtype = int16
    /\ next_up(rtype) = int32

----------------------------------------------------------------------------
(* C8 *)

\* The (width, category) pairs the platform supports.
Supported(c, w) ==
    IF c = "float"
    THEN w \in {4, 8} \/ (w = 16 /\ platform.sizeof_long_double = 16)
    ELSE w \in {1, 2, 4, 8} \/ (w = 16 /\ platform.int128)

\* C8: the lookup of (width w, category c) returns the type of size exactly w
\* and category c for a supported pair, and the no-type marker for every
\* other width, never the type of a nearby width.
C8_LookupIsExact ==
    \A c \in {"signed", "unsigned", "float"} :
        op = c \o "_by_size" =>
            /\ Supported(c, S) => rtype = Type(c, S)
            /\ ~Supported(c, S) => rtype = void
            /\ rtype # void => sizeof(rtype) = S /\ rtype.cat = c

C8_Witness ==
    /\ op = "signed_by_size"
    /\ S = 3
    /\ rtype = void

----------------------------------------------------------------------------
(* C9 *)

SameIntegerType == AllIntegers /\ ~Mixed

\* C9: for operands of one integer type, min and max give the same result
\* for every permutation of the arguments, and min(min(a,b),c) =
\* min(a,min(b,c)) = min(a,b,c), likewise for max.
C9_MinMaxOrderFree ==
    /\ (op = "min" /\ Len(Ts) >= 2 /\ SameIntegerType) =>
        /\ \A p \in Perms(Len(vs)) : min(Ts, Permuted(vs, p)) = rval
        /\ Len(vs) = 3 =>
            LET T == <<Ts[1], Ts[1]>>
            IN /\ min(T, <<min(T, <<vs[1], vs[2]>>).v, vs[3]>>) = rval
               /\ min(T, <<vs[1], min(T, <<vs[2], vs[3]>>).v>>) = rval
    /\ (op = "max" /\ Len(Ts) >= 2 /\ SameIntegerType) =>
        /\ \A p \in Perms(Len(vs)) : max(Ts, Permuted(vs, p)) = rval
        /\ Len(vs) = 3 =>
            LET T == <<Ts[1], Ts[1]>>
            IN /\ max(T, <<max(T, <<vs[1], vs[2]>>).v, vs[3]>>) = rval
               /\ max(T, <<vs[1], max(T, <<vs[2], vs[3]>>).v>>) = rval

C9_Witness ==
    /\ op = "min"
    /\ Ts = <<int16, int16, int16>>
    /\ vs = <<numeric_limits_max(int16), numeric_limits_lowest(int16), 0>>
    /\ rval = IntVal(numeric_limits_lowest(int16))

----------------------------------------------------------------------------
(* C10 *)

\* C10: for all operand values, also when low > high, clamp(low, val, high)
\* returns low if val < low, otherwise high if val > high, otherwise val.
C10_ClampAsStated ==
    (op = "clamp" /\ AllIntegers /\ WellFormed) =>
        rval = IntVal(IF vs[2] < vs[1] THEN vs[1]
                      ELSE IF vs[2] > vs[3] THEN vs[3]
                      ELSE vs[2])

\* C10 as amended: for all integer operand values, also when low > high,
\* clamp(low, val, high) returns low if val <= low, otherwise high if
\* val > high, otherwise val.
C10_ClampBranchOrder ==
    (op = "clamp" /\ AllIntegers /\ WellFormed) =>
        rval = IntVal(IF vs[2] <= vs[1] THEN vs[1]
                      ELSE IF vs[2] > vs[3] THEN vs[3]
                      ELSE vs[2])

C10_Witness ==
    /\ op = "clamp"
    /\ Ts = <<int32, int32, int32>>
    /\ vs = <<1, 1, 0>>
    /\ rval = IntVal(1)

============================================================================
